---------------------------- MODULE Spec2Model ----------------------------
(***************************************************************************)
(* Model of memoryman.py: five memory managers (fixed partitions, unequal  *)
(* partitions, dynamic allocation with coalescing, buddy system, paging).  *)
(* As in main(), one manager is constructed per session and every call of  *)
(* the session goes to it.  Python lists are sequences, so the list index  *)
(* i of the source is position i + 1 here.                                 *)
(***************************************************************************)
EXTENDS Integers, Sequences, FiniteSets, TLC

VARIABLES technique,        \* main(): the manager selected for the session
          fixed_partitions, \* FixedSizedPartitioning.partitions
          partitions,       \* UnequalSizedPartitioning.partitions (the sizes)
          allocated,        \* UnequalSizedPartitioning.allocated
          memory,           \* DynamicMemoryAllocation.memory
          free_blocks,      \* BuddySystem.free_blocks
          held,             \* the blocks the caller of BuddySystem holds
          page_table,       \* Paging.page_table
          op,               \* the last call made on the manager
          ret,              \* the value that call returned
          ncalls            \* calls made since construction (saturating)

vars == <<technique, fixed_partitions, partitions, allocated, memory,
          free_blocks, held, page_table, op, ret, ncalls>>

----------------------------------------------------------------------------
(* Bounds of the model: constructor arguments and call arguments.          *)

MaxPid == 2
FixedMemory == 9
FixedPartition == 2
UnequalCount == 2
MaxPartition == 2
DynamicMemory == 4
BuddyOrder == 2
PagingMemory == 8
PageSize == 2
CallCap == 3

Pids == 1..MaxPid

(* The sizes asked for, each at least 1: up to one unit more than the      *)
(* memory (fixed, paging) or than the largest partition (unequal), up to   *)
(* the whole memory (dynamic, buddy).                                      *)
FixedSizes == 1..(FixedMemory + 1)
UnequalSizes == 1..(MaxPartition + 1)
DynamicSizes == 1..DynamicMemory
BuddySizes == 1..(2 ^ BuddyOrder)
PagingSizes == 1..(PagingMemory + 1)

(* Python's None: a value that is no process id, index, address or frame.  *)
None == -1

Techniques == {"fixed", "unequal", "dynamic", "buddy", "paging"}
Strategies == {"first_fit", "best_fit", "worst_fit"}

Min(S) == CHOOSE x \in S : \A y \in S : x <= y

----------------------------------------------------------------------------
(* The call record kept in op.                                             *)

Call(name, pid, size, strategy, address) ==
    [name |-> name, pid |-> pid, size |-> size, strategy |-> strategy,
     address |-> address]

NoCall == Call("init", None, None, "", None)

Count == IF ncalls < CallCap THEN ncalls + 1 ELSE ncalls

----------------------------------------------------------------------------
(* FixedSizedPartitioning                                                  *)

FixedInit == [i \in 1..(FixedMemory \div FixedPartition) |-> None]

partitions_needed(size) == (size + FixedPartition - 1) \div FixedPartition

(* The scan of allocate looking only at the first partition of the window. *)
RECURSIVE FixedScanFirstOnly(_, _, _)
FixedScanFirstOnly(parts, needed, i) ==
    IF i >= Len(parts) - needed + 1 THEN None
    ELSE IF parts[i + 1] = None THEN i
    ELSE FixedScanFirstOnly(parts, needed, i + 1)

(* The scan of allocate over range(len(partitions) - needed): the last     *)
(* window is never looked at.                                              *)
RECURSIVE FixedScanShort(_, _, _)
FixedScanShort(parts, needed, i) ==
    IF i >= Len(parts) - needed THEN None
    ELSE IF \A j \in 0..(needed - 1) : parts[i + j + 1] = None THEN i
    ELSE FixedScanShort(parts, needed, i + 1)

(* The scan of allocate: i runs over range(len(partitions) - needed + 1)   *)
(* and the first i whose slice partitions[i:i+needed] is all free wins.    *)
RECURSIVE FixedScan(_, _, _)
FixedScan(parts, needed, i) ==
    IF i >= Len(parts) - needed + 1 THEN None
    ELSE IF \A j \in 0..(needed - 1) : parts[i + j + 1] = None THEN i
    ELSE FixedScan(parts, needed, i + 1)

FixedTag(parts, i, needed, process_id) ==
    [k \in 1..Len(parts) |->
        IF k - 1 \in i..(i + needed - 1) THEN process_id ELSE parts[k]]

FixedAllocate(process_id, size) ==
    /\ technique = "fixed"
    /\ LET needed == partitions_needed(size)
           i == FixedScan(fixed_partitions, needed, 0)
       IN  IF i # None
           THEN /\ fixed_partitions' = FixedTag(fixed_partitions, i, needed, process_id)
                /\ ret' = TRUE
           ELSE /\ fixed_partitions' = fixed_partitions
                /\ ret' = FALSE
    /\ op' = Call("allocate", process_id, size, "", None)
    /\ ncalls' = Count
    /\ UNCHANGED <<technique, partitions, allocated, memory, free_blocks, held,
                   page_table>>

(* deallocate that stops after the first run of partitions of the process. *)
FixedClearFirstRun(parts, process_id) ==
    LET first == Min({k \in 1..Len(parts) : parts[k] = process_id} \cup {Len(parts) + 1})
    IN  [k \in 1..Len(parts) |->
            IF k >= first /\ \A j \in first..k : parts[j] = process_id
            THEN None ELSE parts[k]]

FixedClear(parts, process_id) ==
    [k \in 1..Len(parts) |-> IF parts[k] = process_id THEN None ELSE parts[k]]

FixedDeallocate(process_id) ==
    /\ technique = "fixed"
    /\ fixed_partitions' = FixedClear(fixed_partitions, process_id)
    /\ op' = Call("deallocate", process_id, None, "", None)
    /\ ret' = None
    /\ ncalls' = Count
    /\ UNCHANGED <<technique, partitions, allocated, memory, free_blocks, held,
                   page_table>>

----------------------------------------------------------------------------
(* UnequalSizedPartitioning                                                *)

(* first_fit without the test that the partition is free. *)
RECURSIVE FirstFitPartitionAny(_, _, _, _)
FirstFitPartitionAny(parts, alloc, size, i) ==
    IF i >= Len(parts) THEN None
    ELSE IF parts[i + 1] >= size THEN i
    ELSE FirstFitPartitionAny(parts, alloc, size, i + 1)

RECURSIVE FirstFitPartition(_, _, _, _)
FirstFitPartition(parts, alloc, size, i) ==
    IF i >= Len(parts) THEN None
    ELSE IF alloc[i + 1] = None /\ parts[i + 1] >= size THEN i
    ELSE FirstFitPartition(parts, alloc, size, i + 1)

RECURSIVE BestFitPartition(_, _, _, _, _, _)
BestFitPartition(parts, alloc, size, i, best_index, best_size) ==
    IF i >= Len(parts) THEN best_index
    ELSE IF /\ alloc[i + 1] = None /\ parts[i + 1] >= size
            /\ (best_size = None \/ parts[i + 1] < best_size)
         THEN BestFitPartition(parts, alloc, size, i + 1, i, parts[i + 1])
         ELSE BestFitPartition(parts, alloc, size, i + 1, best_index, best_size)

RECURSIVE WorstFitPartition(_, _, _, _, _, _)
WorstFitPartition(parts, alloc, size, i, worst_index, worst_size) ==
    IF i >= Len(parts) THEN worst_index
    ELSE IF /\ alloc[i + 1] = None /\ parts[i + 1] >= size
            /\ (worst_size = None \/ parts[i + 1] > worst_size)
         THEN WorstFitPartition(parts, alloc, size, i + 1, i, parts[i + 1])
         ELSE WorstFitPartition(parts, alloc, size, i + 1, worst_index, worst_size)

(* best_fit that also takes a partition as small as the best so far: among *)
(* equal sizes the last one wins.                                          *)
RECURSIVE BestFitPartitionLast(_, _, _, _, _, _)
BestFitPartitionLast(parts, alloc, size, i, best_index, best_size) ==
    IF i >= Len(parts) THEN best_index
    ELSE IF /\ alloc[i + 1] = None /\ parts[i + 1] >= size
            /\ (best_size = None \/ parts[i + 1] <= best_size)
         THEN BestFitPartitionLast(parts, alloc, size, i + 1, i, parts[i + 1])
         ELSE BestFitPartitionLast(parts, alloc, size, i + 1, best_index, best_size)

find_partition_last_tie(parts, alloc, size, strategy) ==
    IF strategy = "first_fit" THEN FirstFitPartition(parts, alloc, size, 0)
    ELSE IF strategy = "best_fit"
         THEN BestFitPartitionLast(parts, alloc, size, 0, None, None)
    ELSE IF strategy = "worst_fit"
         THEN WorstFitPartition(parts, alloc, size, 0, None, None)
    ELSE None

find_partition(parts, alloc, size, strategy) ==
    IF strategy = "first_fit" THEN FirstFitPartition(parts, alloc, size, 0)
    ELSE IF strategy = "best_fit"
         THEN BestFitPartition(parts, alloc, size, 0, None, None)
    ELSE IF strategy = "worst_fit"
         THEN WorstFitPartition(parts, alloc, size, 0, None, None)
    ELSE None

UnequalAllocate(process_id, size, strategy) ==
    /\ technique = "unequal"
    /\ LET index == find_partition(partitions, allocated, size, strategy)
       IN  IF index # None
           THEN /\ allocated' = [allocated EXCEPT ![index + 1] = process_id]
                /\ ret' = TRUE
           ELSE /\ allocated' = allocated
                /\ ret' = FALSE
    /\ op' = Call("allocate", process_id, size, strategy, None)
    /\ ncalls' = Count
    /\ UNCHANGED <<technique, fixed_partitions, partitions, memory, free_blocks,
                   held, page_table>>

UnequalClear(alloc, process_id) ==
    [k \in 1..Len(alloc) |-> IF alloc[k] = process_id THEN None ELSE alloc[k]]

UnequalDeallocate(process_id) ==
    /\ technique = "unequal"
    /\ allocated' = UnequalClear(allocated, process_id)
    /\ op' = Call("deallocate", process_id, None, "", None)
    /\ ret' = None
    /\ ncalls' = Count
    /\ UNCHANGED <<technique, fixed_partitions, partitions, memory, free_blocks,
                   held, page_table>>

----------------------------------------------------------------------------
(* DynamicMemoryAllocation.  A block is the tuple <<start, size, pid>>.    *)

DynamicInit == << <<0, DynamicMemory, None>> >>

(* Python's order on the block tuples: by start, then size, then pid.  The *)
(* pids are compared only between blocks of equal start and size.          *)
BlockLess(a, b) ==
    \/ a[1] < b[1]
    \/ a[1] = b[1] /\ a[2] < b[2]
    \/ a[1] = b[1] /\ a[2] = b[2] /\ a[3] < b[3]

RECURSIVE InsertBlock(_, _)
InsertBlock(sorted, block) ==
    IF sorted = << >> THEN <<block>>
    ELSE IF BlockLess(block, Head(sorted)) THEN <<block>> \o sorted
    ELSE <<Head(sorted)>> \o InsertBlock(Tail(sorted), block)

RECURSIVE SortBlocks(_)
SortBlocks(blocks) ==
    IF blocks = << >> THEN << >>
    ELSE InsertBlock(SortBlocks(SubSeq(blocks, 1, Len(blocks) - 1)),
                     blocks[Len(blocks)])

RECURSIVE FirstFitBlock(_, _, _)
FirstFitBlock(mem, size, i) ==
    IF i >= Len(mem) THEN None
    ELSE IF mem[i + 1][3] = None /\ mem[i + 1][2] >= size THEN i
    ELSE FirstFitBlock(mem, size, i + 1)

RECURSIVE BestFitBlock(_, _, _, _, _)
BestFitBlock(mem, size, i, best_index, best_size) ==
    IF i >= Len(mem) THEN best_index
    ELSE IF /\ mem[i + 1][3] = None /\ mem[i + 1][2] >= size
            /\ (best_size = None \/ mem[i + 1][2] < best_size)
         THEN BestFitBlock(mem, size, i + 1, i, mem[i + 1][2])
         ELSE BestFitBlock(mem, size, i + 1, best_index, best_size)

RECURSIVE WorstFitBlock(_, _, _, _, _)
WorstFitBlock(mem, size, i, worst_index, worst_size) ==
    IF i >= Len(mem) THEN worst_index
    ELSE IF /\ mem[i + 1][3] = None /\ mem[i + 1][2] >= size
            /\ (worst_size = None \/ mem[i + 1][2] > worst_size)
         THEN WorstFitBlock(mem, size, i + 1, i, mem[i + 1][2])
         ELSE WorstFitBlock(mem, size, i + 1, worst_index, worst_size)

(* worst_fit that also takes a block as large as the worst so far: among   *)
(* equal sizes the last one wins.                                          *)
RECURSIVE WorstFitBlockLast(_, _, _, _, _)
WorstFitBlockLast(mem, size, i, worst_index, worst_size) ==
    IF i >= Len(mem) THEN worst_index
    ELSE IF /\ mem[i + 1][3] = None /\ mem[i + 1][2] >= size
            /\ (worst_size = None \/ mem[i + 1][2] >= worst_size)
         THEN WorstFitBlockLast(mem, size, i + 1, i, mem[i + 1][2])
         ELSE WorstFitBlockLast(mem, size, i + 1, worst_index, worst_size)

find_block_last_tie(mem, size, strategy) ==
    IF strategy = "first_fit" THEN FirstFitBlock(mem, size, 0)
    ELSE IF strategy = "best_fit" THEN BestFitBlock(mem, size, 0, None, None)
    ELSE IF strategy = "worst_fit" THEN WorstFitBlockLast(mem, size, 0, None, None)
    ELSE None

find_block(mem, size, strategy) ==
    IF strategy = "first_fit" THEN FirstFitBlock(mem, size, 0)
    ELSE IF strategy = "best_fit" THEN BestFitBlock(mem, size, 0, None, None)
    ELSE IF strategy = "worst_fit" THEN WorstFitBlock(mem, size, 0, None, None)
    ELSE None

RemoveAt(seq, k) == SubSeq(seq, 1, k - 1) \o SubSeq(seq, k + 1, Len(seq))

(* DynamicPlace with the sort left out: the allocated block stays at the   *)
(* end of the list.                                                        *)
DynamicPlaceUnsorted(mem, index, process_id, size) ==
    LET start == mem[index + 1][1]
        block_size == mem[index + 1][2]
        rest == [mem EXCEPT ![index + 1] = <<start + size, block_size - size, None>>]
        popped == IF rest[index + 1][2] = 0 THEN RemoveAt(rest, index + 1) ELSE rest
    IN  Append(popped, <<start, size, process_id>>)

(* DynamicPlace that gives the process the end of the block and leaves the *)
(* free remainder in front of it.                                          *)
DynamicPlaceTail(mem, index, process_id, size) ==
    LET start == mem[index + 1][1]
        block_size == mem[index + 1][2]
        rest == [mem EXCEPT ![index + 1] = <<start, block_size - size, None>>]
        popped == IF rest[index + 1][2] = 0 THEN RemoveAt(rest, index + 1) ELSE rest
    IN  SortBlocks(Append(popped, <<start + block_size - size, size, process_id>>))

(* allocate once a block is found: the block at index becomes the free     *)
(* remainder, is popped when empty, the allocated block is appended and    *)
(* the list is sorted.                                                     *)
DynamicPlace(mem, index, process_id, size) ==
    LET start == mem[index + 1][1]
        block_size == mem[index + 1][2]
        rest == [mem EXCEPT ![index + 1] = <<start + size, block_size - size, None>>]
        popped == IF rest[index + 1][2] = 0 THEN RemoveAt(rest, index + 1) ELSE rest
    IN  SortBlocks(Append(popped, <<start, size, process_id>>))

DynamicAllocate(process_id, size, strategy) ==
    /\ technique = "dynamic"
    /\ LET index == find_block(memory, size, strategy)
       IN  IF index # None
           THEN /\ memory' = DynamicPlace(memory, index, process_id, size)
                /\ ret' = TRUE
           ELSE /\ memory' = memory
                /\ ret' = FALSE
    /\ op' = Call("allocate", process_id, size, strategy, None)
    /\ ncalls' = Count
    /\ UNCHANGED <<technique, fixed_partitions, partitions, allocated,
                   free_blocks, held, page_table>>

Relabel(mem, process_id) ==
    [k \in 1..Len(mem) |->
        IF mem[k][3] # process_id THEN mem[k] ELSE <<mem[k][1], mem[k][2], None>>]

(* The loop of merge_free_blocks over the sorted blocks from position k on. *)
RECURSIVE MergeLoop(_, _, _)
MergeLoop(blocks, k, merged_memory) ==
    IF k > Len(blocks) THEN merged_memory
    ELSE LET block == blocks[k]
             n == Len(merged_memory)
         IN  IF n > 0 /\ merged_memory[n][3] = None /\ block[3] = None
             THEN MergeLoop(blocks, k + 1,
                    Append(SubSeq(merged_memory, 1, n - 1),
                           <<merged_memory[n][1], merged_memory[n][2] + block[2], None>>))
             ELSE MergeLoop(blocks, k + 1, Append(merged_memory, block))

(* A merge pass that fuses free blocks pairwise only: a block fused into   *)
(* its predecessor is not fused again with the block after it.             *)
RECURSIVE MergeLoopPairwise(_, _, _, _)
MergeLoopPairwise(blocks, k, merged_memory, fused) ==
    IF k > Len(blocks) THEN merged_memory
    ELSE LET block == blocks[k]
             n == Len(merged_memory)
         IN  IF n > 0 /\ ~fused /\ merged_memory[n][3] = None /\ block[3] = None
             THEN MergeLoopPairwise(blocks, k + 1,
                    Append(SubSeq(merged_memory, 1, n - 1),
                           <<merged_memory[n][1], merged_memory[n][2] + block[2], None>>),
                    TRUE)
             ELSE MergeLoopPairwise(blocks, k + 1, Append(merged_memory, block), FALSE)

merge_free_blocks_pairwise(mem) == MergeLoopPairwise(SortBlocks(mem), 1, << >>, FALSE)

merge_free_blocks(mem) == MergeLoop(SortBlocks(mem), 1, << >>)

DynamicDeallocate(process_id) ==
    /\ technique = "dynamic"
    /\ memory' = merge_free_blocks(Relabel(memory, process_id))
    /\ op' = Call("deallocate", process_id, None, "", None)
    /\ ret' = None
    /\ ncalls' = Count
    /\ UNCHANGED <<technique, fixed_partitions, partitions, allocated,
                   free_blocks, held, page_table>>

----------------------------------------------------------------------------
(* BuddySystem.  free_blocks is the dict: a function from the bucket sizes *)
(* that are keys to the list of free addresses of that size.               *)

BuddySize == 2 ^ BuddyOrder

BuddyInit == [s \in {BuddySize} |-> <<0>>]

(* int.bit_length() of n >= 0. *)
RECURSIVE bit_length(_)
bit_length(n) == IF n = 0 THEN 0 ELSE 1 + bit_length(n \div 2)

(* 1 << x.bit_length(): the shift taken of x instead of x - 1. *)
next_power_of_two_above(x) == 2 ^ bit_length(x)

next_power_of_two(x) == 2 ^ bit_length(x - 1)

(* The buddy address taken as address + size instead of address ^ size. *)
XorAsSum(a, b) == a + b

(* a ^ b of Python on naturals: bitwise exclusive or. *)
RECURSIVE Xor(_, _)
Xor(a, b) ==
    IF a = 0 THEN b
    ELSE IF b = 0 THEN a
    ELSE (((a % 2) + (b % 2)) % 2) + 2 * Xor(a \div 2, b \div 2)

(* free_blocks.get(size, []) *)
Bucket(fb, size) == IF size \in DOMAIN fb THEN fb[size] ELSE << >>

(* free_blocks.setdefault(size, []).append(address) *)
BucketAppend(fb, size, address) ==
    [s \in DOMAIN fb \cup {size} |->
        IF s = size THEN Append(Bucket(fb, size), address) ELSE fb[s]]

(* free_blocks[size].pop(0), and del free_blocks[size] when that empties it *)
BucketPop(fb, size) ==
    IF Tail(fb[size]) = << >>
    THEN [s \in DOMAIN fb \ {size} |-> fb[s]]
    ELSE [fb EXCEPT ![size] = Tail(fb[size])]

(* list.remove(x): the first occurrence of x goes. *)
RECURSIVE ListRemove(_, _)
ListRemove(list, x) ==
    IF list = << >> THEN << >>
    ELSE IF Head(list) = x THEN Tail(list)
    ELSE <<Head(list)>> \o ListRemove(Tail(list), x)

InList(x, list) == \E k \in 1..Len(list) : list[k] = x

(* The while loop of allocate freeing the lower half, which it also keeps. *)
RECURSIVE BuddySplitLow(_, _, _, _)
BuddySplitLow(fb, address, current_size, size) ==
    IF current_size > size
    THEN BuddySplitLow(BucketAppend(fb, current_size \div 2, address),
                       address, current_size \div 2, size)
    ELSE fb

(* The while loop of allocate: halve and free the upper half. *)
RECURSIVE BuddySplit(_, _, _, _)
BuddySplit(fb, address, current_size, size) ==
    IF current_size > size
    THEN BuddySplit(BucketAppend(fb, current_size \div 2, address + current_size \div 2),
                    address, current_size \div 2, size)
    ELSE fb

(* allocate: [address, free_blocks] after the call; the bucket taken is the *)
(* first, in ascending order of size, that is large enough and not empty.   *)
BuddyTake(fb, requested) ==
    LET size == next_power_of_two(requested)
        fit == {c \in DOMAIN fb : c >= size /\ fb[c] # << >>}
    IN  IF fit = {} THEN [address |-> None, free_blocks |-> fb]
        ELSE LET current_size == Min(fit)
                 address == Head(fb[current_size])
             IN  [address |-> address,
                  free_blocks |-> BuddySplit(BucketPop(fb, current_size), address,
                                             current_size, size)]

BuddyAllocate(process_id, size) ==
    /\ technique = "buddy"
    /\ LET r == BuddyTake(free_blocks, size)
       IN  /\ free_blocks' = r.free_blocks
           /\ ret' = r.address
           /\ held' = IF r.address # None
                      THEN held \cup {[address |-> r.address, size |-> size]}
                      ELSE held
    /\ op' = Call("allocate", process_id, size, "", None)
    /\ ncalls' = Count
    /\ UNCHANGED <<technique, fixed_partitions, partitions, allocated, memory,
                   page_table>>

(* The while loop of deallocate that keeps address where the code takes    *)
(* min(address, buddy_address).                                            *)
RECURSIVE BuddyMergeNoMin(_, _, _)
BuddyMergeNoMin(fb, address, size) ==
    IF size <= BuddySize
    THEN LET buddy_address == Xor(address, size)
         IN  IF InList(buddy_address, Bucket(fb, size))
             THEN BuddyMergeNoMin([fb EXCEPT ![size] = ListRemove(fb[size], buddy_address)],
                                  address, size * 2)
             ELSE BucketAppend(fb, size, address)
    ELSE fb

(* The while loop of deallocate, size already rounded. *)
RECURSIVE BuddyMerge(_, _, _)
BuddyMerge(fb, address, size) ==
    IF size <= BuddySize
    THEN LET buddy_address == Xor(address, size)
         IN  IF InList(buddy_address, Bucket(fb, size))
             THEN BuddyMerge([fb EXCEPT ![size] = ListRemove(fb[size], buddy_address)],
                             IF address < buddy_address THEN address ELSE buddy_address,
                             size * 2)
             ELSE BucketAppend(fb, size, address)
    ELSE fb

BuddyRelease(fb, address, size) == BuddyMerge(fb, address, next_power_of_two(size))

BuddyDeallocate(address, size) ==
    /\ technique = "buddy"
    /\ free_blocks' = BuddyRelease(free_blocks, address, size)
    /\ held' = held \ {[address |-> address, size |-> size]}
    /\ op' = Call("deallocate", None, size, "", address)
    /\ ret' = None
    /\ ncalls' = Count
    /\ UNCHANGED <<technique, fixed_partitions, partitions, allocated, memory,
                   page_table>>

(* A call of _next_power_of_two on its own; the states of the manager stay. *)
PowerInputs == 1..(2 * BuddySize + 1)

NextPowerOfTwoCall(x) ==
    /\ technique = "buddy"
    /\ op' = Call("_next_power_of_two", None, x, "", None)
    /\ ret' = next_power_of_two(x)
    /\ ncalls' = Count
    /\ UNCHANGED <<technique, fixed_partitions, partitions, allocated, memory,
                   free_blocks, held, page_table>>

----------------------------------------------------------------------------
(* Paging.  page_table is the dict from <<process_id, page>> to the frame. *)

frames == PagingMemory \div PageSize

PagingInit == [k \in {} |-> 0]

pages_needed(process_size) == (process_size + PageSize - 1) \div PageSize

Values(pt) == {pt[k] : k \in DOMAIN pt}

(* The scan of allocate without the test that the frame is free. *)
RECURSIVE PagingScanAny(_, _, _, _)
PagingScanAny(pt, needed, frame, allocated_frames) ==
    IF frame >= frames THEN allocated_frames
    ELSE IF Len(allocated_frames) + 1 = needed
         THEN Append(allocated_frames, frame)
         ELSE PagingScanAny(pt, needed, frame + 1, Append(allocated_frames, frame))

(* The scan of allocate over range(frames), from frame on. *)
RECURSIVE PagingScan(_, _, _, _)
PagingScan(pt, needed, frame, allocated_frames) ==
    IF frame >= frames THEN allocated_frames
    ELSE IF frame \notin Values(pt)
         THEN IF Len(allocated_frames) + 1 = needed
              THEN Append(allocated_frames, frame)
              ELSE PagingScan(pt, needed, frame + 1, Append(allocated_frames, frame))
         ELSE PagingScan(pt, needed, frame + 1, allocated_frames)

(* The frames found handed to the pages in descending order. *)
PagingAssignReversed(pt, process_id, needed, allocated_frames) ==
    [k \in DOMAIN pt \cup {<<process_id, page>> : page \in 0..(needed - 1)} |->
        IF k[1] = process_id /\ k[2] \in 0..(needed - 1)
        THEN allocated_frames[needed - k[2]]
        ELSE pt[k]]

PagingAssign(pt, process_id, needed, allocated_frames) ==
    [k \in DOMAIN pt \cup {<<process_id, page>> : page \in 0..(needed - 1)} |->
        IF k[1] = process_id /\ k[2] \in 0..(needed - 1)
        THEN allocated_frames[k[2] + 1]
        ELSE pt[k]]

(* allocate that maps the frames it found even when they are too few. *)
PagingAllocatePartial(process_id, process_size) ==
    /\ technique = "paging"
    /\ LET needed == pages_needed(process_size)
           allocated_frames == PagingScan(page_table, needed, 0, << >>)
       IN  /\ page_table' = PagingAssign(page_table, process_id,
                                         Len(allocated_frames), allocated_frames)
           /\ ret' = (Len(allocated_frames) >= needed)
    /\ op' = Call("allocate", process_id, process_size, "", None)
    /\ ncalls' = Count
    /\ UNCHANGED <<technique, fixed_partitions, partitions, allocated, memory,
                   free_blocks, held>>

PagingAllocate(process_id, process_size) ==
    /\ technique = "paging"
    /\ LET needed == pages_needed(process_size)
           allocated_frames == PagingScan(page_table, needed, 0, << >>)
       IN  IF Len(allocated_frames) < needed
           THEN /\ page_table' = page_table
                /\ ret' = FALSE
           ELSE /\ page_table' = PagingAssign(page_table, process_id, needed,
                                              allocated_frames)
                /\ ret' = TRUE
    /\ op' = Call("allocate", process_id, process_size, "", None)
    /\ ncalls' = Count
    /\ UNCHANGED <<technique, fixed_partitions, partitions, allocated, memory,
                   free_blocks, held>>

(* deallocate that tests the page of the key where the code tests its     *)
(* process id.                                                             *)
PagingRemoveByPage(pt, process_id) ==
    [k \in {q \in DOMAIN pt : q[2] # process_id} |-> pt[k]]

PagingRemove(pt, process_id) ==
    [k \in {q \in DOMAIN pt : q[1] # process_id} |-> pt[k]]

PagingDeallocate(process_id) ==
    /\ technique = "paging"
    /\ page_table' = PagingRemove(page_table, process_id)
    /\ op' = Call("deallocate", process_id, None, "", None)
    /\ ret' = None
    /\ ncalls' = Count
    /\ UNCHANGED <<technique, fixed_partitions, partitions, allocated, memory,
                   free_blocks, held>>

----------------------------------------------------------------------------

Init ==
    /\ technique \in Techniques
    /\ fixed_partitions = FixedInit
    /\ IF technique = "unequal"
       THEN partitions \in [1..UnequalCount -> 1..MaxPartition]
       ELSE partitions = << >>
    /\ allocated = [i \in 1..Len(partitions) |-> None]
    /\ memory = DynamicInit
    /\ free_blocks = BuddyInit
    /\ held = {}
    /\ page_table = PagingInit
    /\ op = NoCall
    /\ ret = None
    /\ ncalls = 0

FixedNext ==
    \/ \E p \in Pids, s \in FixedSizes : FixedAllocate(p, s)
    \/ \E p \in Pids : FixedDeallocate(p)

UnequalNext ==
    \/ \E p \in Pids, s \in UnequalSizes, st \in Strategies : UnequalAllocate(p, s, st)
    \/ \E p \in Pids : UnequalDeallocate(p)

DynamicNext ==
    \/ \E p \in Pids, s \in DynamicSizes, st \in Strategies : DynamicAllocate(p, s, st)
    \/ \E p \in Pids : DynamicDeallocate(p)

(* The caller of BuddySystem releases a block it holds, with the address   *)
(* allocate returned and the size it asked for.                            *)
BuddyNext ==
    \/ \E p \in Pids, s \in BuddySizes : BuddyAllocate(p, s)
    \/ \E b \in held : BuddyDeallocate(b.address, b.size)

PagingNext ==
    \/ \E p \in Pids, s \in PagingSizes : PagingAllocate(p, s)
    \/ \E p \in Pids : PagingDeallocate(p)

Next == FixedNext \/ UnequalNext \/ DynamicNext \/ BuddyNext \/ PagingNext

Spec == Init /\ [][Next]_vars

(* One session per manager, and the sessions of the two managers that take *)
(* a placement strategy.                                                   *)
FixedStart == Init /\ technique = "fixed"
DynamicStart == Init /\ technique = "dynamic"
FitStart == Init /\ technique \in {"unequal", "dynamic"}
BuddyStart == Init /\ technique = "buddy"
PagingStart == Init /\ technique = "paging"

FitNext == UnequalNext \/ DynamicNext

SpecFixed == FixedStart /\ [][FixedNext]_vars
SpecDynamic == DynamicStart /\ [][DynamicNext]_vars
SpecFit == FitStart /\ [][FitNext]_vars
SpecBuddy == BuddyStart /\ [][BuddyNext]_vars
SpecPaging == PagingStart /\ [][PagingNext]_vars

(* The session of BuddySystem with a caller that passes deallocate any     *)
(* address and any size >= 1: a block it does not hold, a block twice, an  *)
(* address at the end of memory, a size above the memory size.  Such calls *)
(* grow the free lists without end, so the session has CallCap calls.      *)
AnyAddresses == 0..BuddySize
AnySizes == 1..(BuddySize + 1)

AnyBuddyNext ==
    \/ \E p \in Pids, s \in BuddySizes : ncalls < CallCap /\ BuddyAllocate(p, s)
    \/ \E a \in AnyAddresses, s \in AnySizes :
          ncalls < CallCap /\ BuddyDeallocate(a, s)

SpecAnyBuddy == BuddyStart /\ [][AnyBuddyNext]_vars

(* The session of BuddySystem with calls of its rounding helper. *)
PowerNext == BuddyNext \/ \E x \in PowerInputs : NextPowerOfTwoCall(x)
SpecPower == BuddyStart /\ [][PowerNext]_vars

(* The sessions of the four managers that key what they hand out by the    *)
(* process id.                                                             *)
OwnerStart == Init /\ technique \in {"fixed", "unequal", "dynamic", "paging"}
OwnerNext == FixedNext \/ UnequalNext \/ DynamicNext \/ PagingNext
SpecOwner == OwnerStart /\ [][OwnerNext]_vars

----------------------------------------------------------------------------
(* The command loop of main.  It makes the same two calls on every         *)
(* manager: manager.allocate(process_id, size, strategy) and               *)
(* manager.deallocate(process_id).                                         *)

(* What ret holds when the call ended in an exception nothing catches. *)
Raised == None - 1

(* The parameters after self of the allocate and of the deallocate of the  *)
(* manager of technique t; none of them has *args.                         *)
allocate_parameters(t) == IF t \in {"unequal", "dynamic"} THEN 3 ELSE 2
deallocate_parameters(t) == IF t = "buddy" THEN 2 ELSE 1

(* main has assigned its local strategy: only two branches do. *)
strategy_bound(t) == t \in {"unequal", "dynamic"}

(* The last call raised, and main has ended with it. *)
Terminated ==
    /\ op.name \in {"allocate", "deallocate"}
    /\ ~(strategy_bound(technique) /\ op.name = "allocate")
    /\ ret = Raised

(* The allocate command where reading strategy or binding three arguments *)
(* fails: UnboundLocalError or TypeError, before the manager is touched.   *)
MainAllocateRaises(process_id, size) ==
    /\ ~Terminated
    /\ ~strategy_bound(technique) \/ allocate_parameters(technique) < 3
    /\ op' = Call("allocate", process_id, size, "", None)
    /\ ret' = Raised
    /\ ncalls' = Count
    /\ UNCHANGED <<technique, fixed_partitions, partitions, allocated, memory,
                   free_blocks, held, page_table>>

(* The deallocate command where binding one argument fails: TypeError. *)
MainDeallocateRaises(process_id) ==
    /\ ~Terminated
    /\ deallocate_parameters(technique) > 1
    /\ op' = Call("deallocate", process_id, None, "", None)
    /\ ret' = Raised
    /\ ncalls' = Count
    /\ UNCHANGED <<technique, fixed_partitions, partitions, allocated, memory,
                   free_blocks, held, page_table>>

MainNext ==
    \/ \E p \in Pids, s \in FixedSizes \cup BuddySizes \cup PagingSizes :
          MainAllocateRaises(p, s)
    \/ \E p \in Pids, s \in UnequalSizes, st \in Strategies : UnequalAllocate(p, s, st)
    \/ \E p \in Pids, s \in DynamicSizes, st \in Strategies : DynamicAllocate(p, s, st)
    \/ \E p \in Pids : MainDeallocateRaises(p)
    \/ \E p \in Pids : ~Terminated /\ FixedDeallocate(p)
    \/ \E p \in Pids : UnequalDeallocate(p)
    \/ \E p \in Pids : DynamicDeallocate(p)
    \/ \E p \in Pids : ~Terminated /\ PagingDeallocate(p)

SpecMain == Init /\ [][MainNext]_vars

----------------------------------------------------------------------------
(* Notions the properties are stated with.                                 *)

(* ceil(size / unit): the least n with n * unit >= size. *)
CeilDiv(size, unit) == Min({n \in 0..size : n * unit >= size})

RECURSIVE SumSizes(_)
SumSizes(mem) == IF mem = << >> THEN 0 ELSE Head(mem)[2] + SumSizes(Tail(mem))

(* The owner of address x: the pid of the blocks that contain x. *)
Owners(mem, x) ==
    {mem[k][3] : k \in {j \in 1..Len(mem) : mem[j][1] <= x /\ x < mem[j][1] + mem[j][2]}}

NoAdjacentFree(mem) ==
    \A k \in 1..(Len(mem) - 1) : ~(mem[k][3] = None /\ mem[k + 1][3] = None)

----------------------------------------------------------------------------
(* C1: DynamicMemoryAllocation: in every reachable state the blocks are    *)
(* sorted by strictly increasing start, the first starts at 0, each starts *)
(* where the previous one ends, and the sizes sum to memory_size.          *)
BlocksTileMemory ==
    /\ Len(memory) >= 1
    /\ memory[1][1] = 0
    /\ \A k \in 1..(Len(memory) - 1) :
          /\ memory[k][1] < memory[k + 1][1]
          /\ memory[k + 1][1] = memory[k][1] + memory[k][2]
    /\ SumSizes(memory) = DynamicMemory

(* A deallocate has left a free block between two allocated blocks. *)
BlocksTileWitness ==
    /\ technique = "dynamic"
    /\ op.name = "deallocate"
    /\ \E k \in 2..(Len(memory) - 1) :
          /\ memory[k][3] = None
          /\ memory[k - 1][3] # None
          /\ memory[k + 1][3] # None

----------------------------------------------------------------------------
(* C2: DynamicMemoryAllocation: a deallocate(pid) leaves no two adjacent   *)
(* blocks both free: every address that was free or owned by pid is free   *)
(* afterwards, every other address keeps its owner, so each maximal run of *)
(* free blocks has become one free block of the size of the run.           *)
DeallocateCoalesces ==
    [][(technique = "dynamic" /\ op'.name = "deallocate") =>
          /\ NoAdjacentFree(memory')
          /\ \A x \in 0..(DynamicMemory - 1) :
                Owners(memory', x) =
                    {IF o = op'.pid THEN None ELSE o : o \in Owners(memory, x)}
          /\ \A k \in 1..Len(memory') :
                memory'[k][3] # None => \E j \in 1..Len(memory) : memory[j] = memory'[k]
      ]_vars

(* A deallocate, the third call or a later one, has left one free block of *)
(* two units or more in front of a block of another process: two blocks of *)
(* one unit released before a block that stays.                            *)
DeallocateCoalescesWitness ==
    /\ technique = "dynamic"
    /\ op.name = "deallocate"
    /\ ncalls >= 3
    /\ Len(memory) = 2
    /\ memory[1][3] = None /\ memory[1][2] >= 2
    /\ memory[2][3] # None /\ memory[2][3] # op.pid

----------------------------------------------------------------------------
(* The free-list without its empty buckets. *)
NonEmptyBuckets(fb) == [s \in {k \in DOMAIN fb : fb[k] # << >>} |-> fb[s]]

(* The second call of the session releases the block the first call got:   *)
(* with the caller releasing only blocks it holds, these are the states    *)
(* after a = allocate(pid, size); deallocate(a, size) on a new allocator.  *)
AfterRoundTrip ==
    /\ technique = "buddy"
    /\ ncalls = 2
    /\ op.name = "deallocate"

(* C3 as stated: BuddySystem: from the initial state, a = allocate(pid,    *)
(* size) and then deallocate(a, size) leave free_blocks equal to its       *)
(* initial value {M: [0]}, with M the only bucket.                         *)
BuddyRoundTripExact == AfterRoundTrip => free_blocks = BuddyInit

(* What the round trip does restore: [0] in bucket M and no address in any *)
(* other bucket.  deallocate never deletes a bucket it empties, so the     *)
(* buckets made by the split stay as empty buckets, and free_blocks equals *)
(* {M: [0]} itself only when size rounds to M.                             *)
BuddyRoundTrip ==
    AfterRoundTrip =>
        /\ NonEmptyBuckets(free_blocks) = BuddyInit
        /\ 2 * op.size > BuddySize => free_blocks = BuddyInit

(* A round trip of a block of one unit: the split went down every size. *)
BuddyRoundTripWitness ==
    /\ AfterRoundTrip
    /\ op.size = 1
    /\ op.address = 0
    /\ held = {}
    /\ DOMAIN free_blocks = {2 ^ k : k \in 0..BuddyOrder}

----------------------------------------------------------------------------
(* The other half of the block of twice the size that holds the block of   *)
(* this size at address a.                                                 *)
BuddyOf(a, size) == IF (a \div size) % 2 = 0 THEN a + size ELSE a - size

(* C4: BuddySystem: with blocks released only with the address allocate    *)
(* returned and the size asked for, every free address is in exactly one   *)
(* bucket and once in it, and no bucket of a size below the memory size    *)
(* holds both an address and its buddy.                                    *)
BuddyFreeListSound ==
    /\ \A s \in DOMAIN free_blocks : \A i, j \in 1..Len(free_blocks[s]) :
          i # j => free_blocks[s][i] # free_blocks[s][j]
    /\ \A s, t \in DOMAIN free_blocks : \A i \in 1..Len(free_blocks[s]) :
          s # t => ~InList(free_blocks[s][i], free_blocks[t])
    /\ \A s \in DOMAIN free_blocks : \A i \in 1..Len(free_blocks[s]) :
          s < BuddySize => ~InList(BuddyOf(free_blocks[s][i], s), free_blocks[s])

(* A block was released while its buddy is still held: it stays in its     *)
(* bucket, unmerged.                                                       *)
BuddyFreeListWitness ==
    /\ technique = "buddy"
    /\ op.name = "deallocate"
    /\ \E b \in held :
          /\ next_power_of_two(b.size) = next_power_of_two(op.size)
          /\ b.address = BuddyOf(op.address, next_power_of_two(op.size))
    /\ InList(op.address, Bucket(free_blocks, next_power_of_two(op.size)))

----------------------------------------------------------------------------
(* C5: Paging: in every reachable state, also after allocate calls for a   *)
(* pid that already holds pages, no two keys of the page table map to the  *)
(* same frame and every mapped frame lies in [0, memory_size // page_size). *)
FramesNotShared ==
    /\ \A k1, k2 \in DOMAIN page_table :
          k1 # k2 => page_table[k1] # page_table[k2]
    /\ \A k \in DOMAIN page_table :
          0 <= page_table[k] /\ page_table[k] < PagingMemory \div PageSize

(* A process that held pages 0 and 1 was allocated again: its page 0 has   *)
(* moved to a higher frame than its page 1, and another process holds a    *)
(* frame too.                                                              *)
FramesNotSharedWitness ==
    /\ technique = "paging"
    /\ op.name = "allocate" /\ ret = TRUE
    /\ <<op.pid, 0>> \in DOMAIN page_table
    /\ <<op.pid, 1>> \in DOMAIN page_table
    /\ page_table[<<op.pid, 0>>] > page_table[<<op.pid, 1>>]
    /\ \E k \in DOMAIN page_table : k[1] # op.pid

----------------------------------------------------------------------------
FreeFrames(pt) == {f \in 0..((PagingMemory \div PageSize) - 1) : f \notin Values(pt)}

(* C6: Paging: an allocate(pid, process_size) that needs more pages,       *)
(* ceil(process_size / page_size), than there are free frames returns      *)
(* False and leaves the page table as it was.                              *)
PagingFailureAtomic ==
    [][(/\ technique = "paging"
        /\ op'.name = "allocate"
        /\ CeilDiv(op'.size, PageSize) > Cardinality(FreeFrames(page_table)))
       => (ret' = FALSE /\ page_table' = page_table)
      ]_vars

(* An allocate failed while some frames were free and others mapped. *)
PagingFailureWitness ==
    /\ technique = "paging"
    /\ op.name = "allocate" /\ ret = FALSE
    /\ FreeFrames(page_table) # {}
    /\ \E k1, k2 \in DOMAIN page_table : k1[1] # k2[1]

----------------------------------------------------------------------------
(* The indices at which a window of n consecutive free partitions starts. *)
Windows(parts, n) ==
    {i \in 0..(Len(parts) - n) : \A j \in i..(i + n - 1) : parts[j + 1] = None}

(* C7: FixedSizedPartitioning: allocate(pid, size) with size >= 1 and      *)
(* n = ceil(size / partition_size), when a window of n consecutive free    *)
(* partitions exists, returns True and tags with pid exactly the           *)
(* partitions i..i+n-1 of the lowest such window; the others are unchanged. *)
FixedTakesLowestWindow ==
    [][(/\ technique = "fixed"
        /\ op'.name = "allocate"
        /\ op'.size >= 1
        /\ Windows(fixed_partitions, CeilDiv(op'.size, FixedPartition)) # {})
       => LET n == CeilDiv(op'.size, FixedPartition)
              i == Min(Windows(fixed_partitions, n))
          IN  /\ ret' = TRUE
              /\ Len(fixed_partitions') = Len(fixed_partitions)
              /\ \A k \in 0..(Len(fixed_partitions) - 1) :
                    fixed_partitions'[k + 1] =
                        IF i <= k /\ k <= i + n - 1 THEN op'.pid
                        ELSE fixed_partitions[k + 1]
      ]_vars

(* An allocate of two partitions or more succeeded behind a free partition *)
(* that was too small a window for it.                                     *)
FixedLowestWindowWitness ==
    /\ technique = "fixed"
    /\ op.name = "allocate" /\ ret = TRUE
    /\ op.size > FixedPartition
    /\ \E k \in 1..Len(fixed_partitions), m \in 1..(Len(fixed_partitions) - 2) :
          /\ k < m
          /\ fixed_partitions[k] = None
          /\ fixed_partitions[m] \notin {None, op.pid}
          /\ fixed_partitions[m + 1] = op.pid
          /\ fixed_partitions[m + 2] = op.pid

----------------------------------------------------------------------------
(* C8: FixedSizedPartitioning: deallocate(pid) frees every partition       *)
(* tagged with pid, wherever it is, and leaves the others unchanged; an    *)
(* allocate of one partition that follows finds a free partition whenever  *)
(* there is one, and tags the lowest.                                      *)
FixedDeallocateFrees ==
    [][/\ (technique = "fixed" /\ op'.name = "deallocate") =>
            /\ Len(fixed_partitions') = Len(fixed_partitions)
            /\ \A k \in 1..Len(fixed_partitions) :
                  fixed_partitions'[k] =
                      IF fixed_partitions[k] = op'.pid THEN None
                      ELSE fixed_partitions[k]
       /\ (/\ technique = "fixed"
           /\ op.name = "deallocate" /\ op'.name = "allocate"
           /\ op'.size <= FixedPartition
           /\ \E k \in 1..Len(fixed_partitions) : fixed_partitions[k] = None) =>
            /\ ret' = TRUE
            /\ LET k == Min({j \in 1..Len(fixed_partitions) : fixed_partitions[j] = None})
               IN  fixed_partitions'[k] = op'.pid
      ]_vars

(* deallocate(pid) left two free partitions with a partition of another    *)
(* process between them and no partition of pid.                           *)
FixedDeallocateWitness ==
    /\ technique = "fixed"
    /\ op.name = "deallocate"
    /\ \A k \in 1..Len(fixed_partitions) : fixed_partitions[k] # op.pid
    /\ \E k \in 2..(Len(fixed_partitions) - 1) :
          /\ fixed_partitions[k - 1] = None
          /\ fixed_partitions[k] # None
          /\ fixed_partitions[k + 1] = None

----------------------------------------------------------------------------
(* The free regions, by list index, of the two managers that take a        *)
(* strategy, and the size of region i.                                     *)
RegionCount == IF technique = "unequal" THEN Len(partitions) ELSE Len(memory)

RegionSize(i) == IF technique = "unequal" THEN partitions[i + 1] ELSE memory[i + 1][2]

RegionFree(i) ==
    IF technique = "unequal" THEN allocated[i + 1] = None ELSE memory[i + 1][3] = None

FreeRegions == {i \in 0..(RegionCount - 1) : RegionFree(i)}

Fitting(size) == {i \in FreeRegions : RegionSize(i) >= size}

(* The call of the step took region i for pid: the partition i is tagged   *)
(* with pid, or the block i gave its first size units to pid; the other    *)
(* regions are as they were.                                               *)
Took(i, pid, size) ==
    IF technique = "unequal"
    THEN allocated' = [allocated EXCEPT ![i + 1] = pid]
    ELSE /\ \E j \in 1..Len(memory') : memory'[j] = <<memory[i + 1][1], size, pid>>
         /\ \A k \in 1..Len(memory) :
               k # i + 1 => \E j \in 1..Len(memory') : memory'[j] = memory[k]

(* C9: best_fit, UnequalSizedPartitioning and DynamicMemoryAllocation: the *)
(* region chosen is free, of size >= the size asked for, of the smallest   *)
(* such size and, among those, of the lowest index; with no such region    *)
(* the call returns False.                                                 *)
BestFitChoice ==
    [][(op'.name = "allocate" /\ op'.strategy = "best_fit") =>
          LET fit == Fitting(op'.size)
          IN  IF fit = {} THEN ret' = FALSE
              ELSE /\ ret' = TRUE
                   /\ Took(Min({i \in fit : \A j \in fit : RegionSize(i) <= RegionSize(j)}),
                           op'.pid, op'.size)
      ]_vars

(* A best_fit allocate gave the process its only partition and passed over *)
(* a free partition of lower index that is larger: partitions [2, 1] and a *)
(* request of 1.                                                           *)
BestFitWitness ==
    /\ technique = "unequal"
    /\ op.name = "allocate" /\ op.strategy = "best_fit" /\ ret = TRUE
    /\ \E j \in 1..Len(partitions) :
          /\ \A k \in 1..Len(partitions) : (allocated[k] = op.pid) <=> (k = j)
          /\ \E k \in 1..(j - 1) :
                allocated[k] = None /\ partitions[k] > partitions[j]

(* C10: worst_fit, UnequalSizedPartitioning and DynamicMemoryAllocation:   *)
(* the region chosen is free, of size >= the size asked for, of the        *)
(* largest size among all free regions and, among those, of the lowest     *)
(* index; with no free region of size >= the size asked for the call       *)
(* returns False.                                                          *)
WorstFitChoice ==
    [][(op'.name = "allocate" /\ op'.strategy = "worst_fit") =>
          LET fit == Fitting(op'.size)
          IN  IF fit = {} THEN ret' = FALSE
              ELSE /\ ret' = TRUE
                   /\ Took(Min({i \in fit :
                                  \A j \in FreeRegions : RegionSize(i) >= RegionSize(j)}),
                           op'.pid, op'.size)
      ]_vars

(* A worst_fit allocate gave the process its only block and passed over a  *)
(* free block of lower start that was large enough.                        *)
WorstFitWitness ==
    /\ technique = "dynamic"
    /\ op.name = "allocate" /\ op.strategy = "worst_fit" /\ ret = TRUE
    /\ \E j \in 1..Len(memory) :
          /\ \A k \in 1..Len(memory) : (memory[k][3] = op.pid) <=> (k = j)
          /\ \E k \in 1..(j - 1) :
                memory[k][3] = None /\ memory[k][2] >= op.size

(* What the four managers keyed by process id hold. *)
Holdings == <<fixed_partitions, allocated, memory, page_table>>

(* The process id owns a partition, a block or a page-table entry. *)
Resident(pid) ==
    \/ \E k \in 1..Len(fixed_partitions) : fixed_partitions[k] = pid
    \/ \E k \in 1..Len(allocated) : allocated[k] = pid
    \/ \E k \in 1..Len(memory) : memory[k][3] = pid
    \/ \E k \in DOMAIN page_table : k[1] = pid

(* C11: deallocate(pid), for a pid that owns nothing, in the Fixed,        *)
(* Unequal, Dynamic and Paging managers: the call returns without a value  *)
(* and leaves the manager exactly as it was; in Dynamic the block list     *)
(* holds the same blocks in the same order, nothing merged or reordered.   *)
DeallocateAbsentNoOp ==
    [][(op'.name = "deallocate" /\ ~Resident(op'.pid)) =>
          /\ Holdings' = Holdings
          /\ ret' = None
      ]_vars

(* deallocate of a pid that owns nothing, in Dynamic, while the other pid  *)
(* owns a block and a free block is left.                                  *)
DeallocateAbsentWitness ==
    /\ op.name = "deallocate" /\ ncalls = 2
    /\ technique = "dynamic"
    /\ \E p \in Pids \ {op.pid} : Resident(p)
    /\ \E k \in 1..Len(memory) : memory[k][3] = None


(* C12: allocate(process_id, size, strategy) on the Fixed, Buddy and       *)
(* Paging managers, the call main makes: the strategy is accepted and      *)
(* ignored and the call ends in a normal return, never in an error.        *)
AllocateAcceptsStrategy ==
    (op.name = "allocate" /\ technique \in {"fixed", "buddy", "paging"}) =>
        ret # Raised


RECURSIVE IsPowerOfTwo(_)
IsPowerOfTwo(n) == n = 1 \/ (n > 1 /\ n % 2 = 0 /\ IsPowerOfTwo(n \div 2))

(* C13: _next_power_of_two(x), x >= 1, returns the smallest power of two   *)
(* that is >= x: it returns x itself when x is a power of two, and the     *)
(* result r always satisfies x <= r < 2 * x.                               *)
NextPowerOfTwoLeast ==
    op.name = "_next_power_of_two" =>
        /\ IsPowerOfTwo(ret)
        /\ op.size <= ret /\ ret < 2 * op.size
        /\ \A q \in op.size..(ret - 1) : ~IsPowerOfTwo(q)
        /\ IsPowerOfTwo(op.size) => ret = op.size

(* An argument above the memory size that is no power of two was rounded   *)
(* up.                                                                     *)
NextPowerOfTwoWitness ==
    /\ op.name = "_next_power_of_two"
    /\ op.size > BuddySize /\ ~IsPowerOfTwo(op.size)
    /\ ret > op.size


(* The memory in the free lists: the sizes of the buckets, each as often   *)
(* as the bucket has addresses.                                            *)
RECURSIVE FreeTotal(_)
FreeTotal(fb) ==
    IF DOMAIN fb = {} THEN 0
    ELSE LET s == CHOOSE c \in DOMAIN fb : TRUE
         IN  s * Len(fb[s]) + FreeTotal([c \in DOMAIN fb \ {s} |-> fb[c]])

(* C14: BuddySystem.deallocate(address, size), any address, any size >= 1, *)
(* any state: the call ends with the address of the (possibly merged)      *)
(* block appended to a bucket, also when the size has grown beyond the     *)
(* memory size, so it never takes free addresses out without putting the   *)
(* resulting block in: the block put in contains the address released and  *)
(* the free memory grows by the rounded size.                              *)
DeallocateInsertsBlock ==
    [][op'.name = "deallocate" =>
          /\ \E s \in DOMAIN free_blocks' :
                /\ free_blocks'[s] # << >>
                /\ LET a == free_blocks'[s][Len(free_blocks'[s])]
                   IN  a <= op'.address /\ op'.address < a + s
          /\ FreeTotal(free_blocks') =
                FreeTotal(free_blocks) + next_power_of_two(op'.size)
      ]_vars


(* The k-th lowest member of a set of numbers, k from 1. *)
KthLowest(S, k) == CHOOSE f \in S : Cardinality({g \in S : g < f}) = k - 1

(* C15: Paging, a successful allocate(pid, process_size) with              *)
(* n = ceil(process_size / page_size): for every k in 0..n-1 page k of pid *)
(* is mapped to the (k+1)-th lowest frame that was free before the call,   *)
(* and the entries of every other pid are unchanged.                       *)
PagingMapsLowestFrames ==
    [][(op'.name = "allocate" /\ ret' = TRUE) =>
          LET n == CeilDiv(op'.size, PageSize)
              free == FreeFrames(page_table)
          IN  /\ \A k \in 0..(n - 1) :
                    /\ <<op'.pid, k>> \in DOMAIN page_table'
                    /\ page_table'[<<op'.pid, k>>] = KthLowest(free, k + 1)
              /\ \A key \in DOMAIN page_table \cup DOMAIN page_table' :
                    key[1] # op'.pid =>
                       /\ key \in DOMAIN page_table \cap DOMAIN page_table'
                       /\ page_table'[key] = page_table[key]
      ]_vars

(* A successful allocate of two pages or more whose pages 0 and 1 lie on   *)
(* both sides of a frame of another pid.                                   *)
PagingLowestFramesWitness ==
    /\ technique = "paging"
    /\ op.name = "allocate" /\ ret = TRUE /\ op.size > PageSize
    /\ \E key \in DOMAIN page_table :
          /\ key[1] # op.pid
          /\ page_table[<<op.pid, 0>>] < page_table[key]
          /\ page_table[key] < page_table[<<op.pid, 1>>]


(* The free block, counted from 1, that the strategy selects among the     *)
(* free blocks of size >= size: the first, the smallest, or the largest,   *)
(* the lowest index on ties.                                               *)
SelectedBlock(size, strategy) ==
    LET fit == Fitting(size)
    IN  1 + Min(IF strategy = "first_fit" THEN fit
                ELSE IF strategy = "best_fit"
                THEN {i \in fit : \A j \in fit : RegionSize(i) <= RegionSize(j)}
                ELSE {i \in fit : \A j \in fit : RegionSize(i) >= RegionSize(j)})

(* C16: DynamicMemoryAllocation, a successful allocate(pid, size, ...),    *)
(* size >= 1, on the selected free block (start, blockSize, None): the     *)
(* block is replaced by (start, size, pid) alone when blockSize == size,   *)
(* and by (start, size, pid) immediately followed by                       *)
(* (start + size, blockSize - size, None) when blockSize > size; every     *)
(* other block is unchanged and the list stays sorted by start.            *)
DynamicSplitsBlock ==
    [][(op'.name = "allocate" /\ ret' = TRUE) =>
          LET i == SelectedBlock(op'.size, op'.strategy)
              start == memory[i][1]
              blockSize == memory[i][2]
              taken == <<start, op'.size, op'.pid>>
          IN  /\ memory[i][3] = None /\ blockSize >= op'.size
              /\ memory' = SubSeq(memory, 1, i - 1)
                             \o (IF blockSize = op'.size THEN <<taken>>
                                 ELSE <<taken, <<start + op'.size,
                                                 blockSize - op'.size, None>>>>)
                             \o SubSeq(memory, i + 1, Len(memory))
              /\ \A k \in 1..(Len(memory') - 1) : memory'[k][1] < memory'[k + 1][1]
      ]_vars

(* A successful allocate split a free block that lies between two blocks   *)
(* of the other pid: the only block of the pid is followed by the free     *)
(* remainder.                                                              *)
DynamicSplitWitness ==
    /\ technique = "dynamic"
    /\ op.name = "allocate" /\ ret = TRUE
    /\ \E k \in 2..(Len(memory) - 2) :
          /\ \A j \in 1..Len(memory) : (memory[j][3] = op.pid) <=> (j = k)
          /\ memory[k][2] = op.size
          /\ memory[k + 1][3] = None
          /\ memory[k - 1][3] \notin {None, op.pid}
          /\ memory[k + 2][3] \notin {None, op.pid}


(* C17: FixedSizedPartitioning: allocate(pid, size) returns False exactly  *)
(* when no window of ceil(size / partition_size) consecutive free          *)
(* partitions exists, which includes needing more partitions than there    *)
(* are, and the partition table is then unchanged.                         *)
FixedFailsWithoutWindow ==
    [][op'.name = "allocate" =>
          LET n == CeilDiv(op'.size, FixedPartition)
          IN  /\ (ret' = FALSE) <=> (Windows(fixed_partitions, n) = {})
              /\ (ret' = FALSE) => fixed_partitions' = fixed_partitions
      ]_vars

(* allocate returned False although as many partitions as it needed were   *)
(* free: they were not consecutive.                                        *)
FixedFailureWitness ==
    /\ technique = "fixed"
    /\ op.name = "allocate" /\ ret = FALSE
    /\ Cardinality({k \in 1..Len(fixed_partitions) : fixed_partitions[k] = None})
          >= CeilDiv(op.size, FixedPartition)


(* The entries of the free lists, <<bucket size, position in the bucket>>. *)
FreeEntries(fb) == UNION {{<<s, k>> : k \in 1..Len(fb[s])} : s \in DOMAIN fb}

(* C18: BuddySystem, blocks released only with the address allocate        *)
(* returned and the size asked for: every address returned is a multiple   *)
(* of the rounded size of its block, and the allocated blocks              *)
(* [a, a + next_pow2(size)) together with the free blocks [f, f + s) are   *)
(* pairwise disjoint and cover [0, M): every address of the memory lies    *)
(* in exactly one of them.                                                 *)
BuddyConservation ==
    /\ \A b \in held : b.address % next_power_of_two(b.size) = 0
    /\ \A x \in 0..(BuddySize - 1) :
          Cardinality({b \in held :
                         b.address <= x /\ x < b.address + next_power_of_two(b.size)})
          + Cardinality({e \in FreeEntries(free_blocks) :
                           /\ free_blocks[e[1]][e[2]] <= x
                           /\ x < free_blocks[e[1]][e[2]] + e[1]})
          = 1
    /\ \A b \in held : b.address + next_power_of_two(b.size) <= BuddySize
    /\ \A e \in FreeEntries(free_blocks) :
          free_blocks[e[1]][e[2]] >= 0 /\ free_blocks[e[1]][e[2]] + e[1] <= BuddySize

(* After a deallocate a block is still held, and free blocks of two sizes  *)
(* lie around it.                                                          *)
BuddyConservationWitness ==
    /\ technique = "buddy"
    /\ op.name = "deallocate" /\ held # {}
    /\ Cardinality({e[1] : e \in FreeEntries(free_blocks)}) >= 2


(* Of a table of owners: the entries that differ after the step were free  *)
(* and now belong to pid.                                                  *)
OnlyFreeTaken(before, after, pid) ==
    /\ Len(after) = Len(before)
    /\ \A k \in 1..Len(before) :
          after[k] # before[k] => before[k] = None /\ after[k] = pid

(* The block lies inside a free block of the list. *)
InsideFree(mem, block) ==
    \E k \in 1..Len(mem) :
       /\ mem[k][3] = None
       /\ mem[k][1] <= block[1] /\ block[1] + block[2] <= mem[k][1] + mem[k][2]

InList3(mem, block) == \E k \in 1..Len(mem) : mem[k] = block

(* C19: Fixed, Unequal, Dynamic, Paging: an allocate(pid, ...), successful *)
(* or not, never changes, shrinks, moves or removes a partition, block or  *)
(* page-table entry owned by another pid, and whatever it gives to pid was *)
(* free before the call.                                                   *)
NoEviction ==
    [][op'.name = "allocate" =>
          CASE technique = "fixed" ->
                 OnlyFreeTaken(fixed_partitions, fixed_partitions', op'.pid)
            [] technique = "unequal" ->
                 /\ partitions' = partitions
                 /\ OnlyFreeTaken(allocated, allocated', op'.pid)
            [] technique = "dynamic" ->
                 LET Other(b) == b[3] # None /\ b[3] # op'.pid
                 IN  /\ SelectSeq(memory', Other) = SelectSeq(memory, Other)
                     /\ \A j \in 1..Len(memory') :
                           memory'[j][3] = op'.pid =>
                              \/ InList3(memory, memory'[j])
                              \/ InsideFree(memory, memory'[j])
            [] technique = "paging" ->
                 /\ \A key \in DOMAIN page_table \cup DOMAIN page_table' :
                       key[1] # op'.pid =>
                          /\ key \in DOMAIN page_table \cap DOMAIN page_table'
                          /\ page_table'[key] = page_table[key]
                 /\ \A key \in DOMAIN page_table' :
                       key[1] = op'.pid =>
                          \/ key \in DOMAIN page_table /\ page_table'[key] = page_table[key]
                          \/ page_table'[key] \in FreeFrames(page_table)
      ]_vars

(* A first_fit allocate took a partition behind a partition of the other   *)
(* pid that is large enough for it: the partition was passed over.         *)
NoEvictionWitness ==
    /\ technique = "unequal"
    /\ op.name = "allocate" /\ op.strategy = "first_fit" /\ ret = TRUE
    /\ \E j \in 1..Len(partitions) :
          /\ \A k \in 1..Len(partitions) : (allocated[k] = op.pid) <=> (k = j)
          /\ \E k \in 1..(j - 1) :
                allocated[k] \notin {None, op.pid} /\ partitions[k] >= op.size


(* C20: BuddySystem, blocks released only with the address allocate        *)
(* returned and the size asked for: whenever no block remains allocated    *)
(* the free addresses are exactly address 0 in bucket M and none in any    *)
(* other bucket, and an allocate(pid, M) that follows succeeds and         *)
(* returns 0.                                                              *)
BuddyFullCoalescing ==
    [][/\ held' = {} =>
             /\ FreeEntries(free_blocks') = {<<BuddySize, 1>>}
             /\ free_blocks'[BuddySize] = <<0>>
       /\ (held = {} /\ op'.name = "allocate" /\ op'.size = BuddySize) => ret' = 0
      ]_vars

(* allocate(pid, M) returned 0 after the memory had been split down to     *)
(* blocks of size 1 and every block had come back.                         *)
BuddyFullCoalescingWitness ==
    /\ technique = "buddy"
    /\ op.name = "allocate" /\ op.size = BuddySize /\ ret = 0
    /\ 1 \in DOMAIN free_blocks
    /\ held = {[address |-> 0, size |-> BuddySize]}


=============================================================================
